---- MODULE Spec2Model ----
(***************************************************************************)
(* Doctor-booking backend (src/main.py, src/schemas.py): the "user",       *)
(* "appointment" and "availability" collections and the request handlers   *)
(* that read and write them.  Instants are integers; identifiers are       *)
(* insertion indexes; record fields no handler reads (notes, names,        *)
(* timestamps) are left out.  response and body record the last request    *)
(* answered: its validated payload and outcome, and the body as received.  *)
(***************************************************************************)
EXTENDS Integers, Sequences, FiniteSets, TLC

VARIABLES db, user, appointment, availability, response, body, inflight

vars == <<db, user, appointment, availability, response, body, inflight>>

(* ---------------------------------------------------------------- bounds *)
MaxAppointments == 2
MaxUsers == 4
MaxThreads == 2
MaxAvailabilities == 1

(* ---------------------------------------------------------------- inputs *)
None == "None"
Doctors == {"d1", "d2"}
Clinics == {"c1", "c2"}
Patients == {"p1", "p2"}
Emails == {"a@x.io", "b@x.io", "c@x.io", "d@x.io"}
\* instants, as integers in their order
Times == {0, 1, 2}
Threads == 1..MaxThreads

\* schemas.py: status: Literal['pending','confirmed','completed','cancelled']
Statuses == {"pending", "confirmed", "completed", "cancelled"}

\* main.py AppointmentStatus: status is any str, the four statuses or another
StatusStrings == Statuses \cup {"archived"}

\* schemas.py Appointment: the validated request body of POST /appointments
Appointment ==
  [clinic_id : Clinics, doctor_id : Doctors, patient_id : Patients,
   start_datetime : Times, end_datetime : Times, status : Statuses]

\* the booking requests sent: for one clinic and patient, every proper interval
\* and one empty one
Bookings ==
  {p \in Appointment :
     /\ p.clinic_id = "c1" /\ p.patient_id = "p1"
     /\ \/ p.start_datetime < p.end_datetime
        \/ (p.start_datetime = 1 /\ p.end_datetime = 1)}

\* the JSON body of POST /appointments as received: status may be left out
AppointmentBody ==
  [clinic_id : Clinics, doctor_id : Doctors, patient_id : Patients,
   start_datetime : Times, end_datetime : Times, status : Statuses \cup {None}]

Appointment_validate_DefaultConfirmed(b) ==
  [b EXCEPT !.status = IF b.status = None THEN "confirmed" ELSE b.status]

\* schemas.py line 60: status = 'pending' when the body gives none
Appointment_validate(b) ==
  [b EXCEPT !.status = IF b.status = None THEN "pending" ELSE b.status]

\* the bodies whose validated form is one of Bookings
BookingBodies == {b \in AppointmentBody : Appointment_validate(b) \in Bookings}

\* bodies of any clinic and patient, with a proper interval and no status
WideBodies ==
  {b \in AppointmentBody : b.status = None /\ b.start_datetime < b.end_datetime}

\* bodies of one clinic and patient, with a proper interval and no status
PlainBodies == BookingBodies \cap WideBodies

\* schemas.py Availability: the validated request body of POST /availabilities
Availability ==
  [doctor_id : Doctors, clinic_id : {"c1"}, weekday : {0},
   start_time : {"09:00"}, end_time : {"17:00"}]

\* schemas.py User: the validated request body of POST /users
User == [email : Emails]

\* main.py AppointmentStatus: the request body of the status PATCH
AppointmentStatus == [status : StatusStrings]

\* path parameter of PATCH /appointments/{appointment_id}/status
AppointmentIds == 1..MaxAppointments

NoRequest == [op |-> "none", payload |-> None, status_code |-> 0, detail |-> "", id |-> 0]

(* ------------------------------------------------------------- the store *)
\* database.create_document (database.py is not among the sources; after section
\* 4.1 of the design): stores the record under a fresh unique identifier and
\* returns it; with no store handle it fails, which the handlers below answer
\* with a 500
create_document(coll, data) ==
  Append(coll, [f \in (DOMAIN data) \cup {"id"} |->
                  IF f = "id" THEN Len(coll) + 1 ELSE data[f]])

\* database.get_documents: the stored records whose fields equal the filter's
get_documents(coll, q) ==
  SelectSeq(coll, LAMBDA d : \A f \in DOMAIN q : d[f] = q[f])

\* collection.update_one({"_id": {"$eq": v}}, {"$set": {"status": s}}), where ids
\* is the set of stored identifiers equal to v (identifiers are unique)
update_one(coll, ids, s) ==
  [i \in 1..Len(coll) |->
     IF coll[i].id \in ids THEN [coll[i] EXCEPT !.status = s] ELSE coll[i]]

Init ==
  /\ db \in {"connected", None}
  /\ user = <<>>
  /\ appointment = <<>>
  /\ availability = <<>>
  /\ response = NoRequest
  /\ body = None
  /\ inflight = [t \in Threads |-> [pc |-> "idle"]]

(* --------------------------------------------------- POST /users (64-71) *)
\* line 67: {"email": payload.email}
EmailQuery(payload, u) == u.email = payload.email

existing_users_Unchecked(payload) == <<>>

\* line 67: existing = list(db["user"].find({...})) if db else []
\* (a store handle is taken to be truthy, None to be falsy)
existing_users(payload) ==
  IF db # None THEN SelectSeq(user, LAMBDA u : EmailQuery(payload, u)) ELSE <<>>

\* lines 68-69: raise HTTPException(400) when the list is not empty
EmailTaken(existing) == existing # <<>>

Reply(op, payload, code, detail, id) ==
  [op |-> op, payload |-> payload, status_code |-> code, detail |-> detail, id |-> id]

\* lines 64-71, the response of create_user given what line 67 read
create_user_response(payload, existing) ==
  IF EmailTaken(existing)
    THEN Reply("create_user", payload, 400, "Email already exists", 0)
  ELSE IF db = None
    THEN Reply("create_user", payload, 500, "Database not available", 0)
  ELSE Reply("create_user", payload, 200, "", Len(user) + 1)

\* lines 64-71, the user collection after create_user
create_user_store(payload, existing) ==
  IF ~EmailTaken(existing) /\ db # None THEN create_document(user, payload) ELSE user

CreateUser(payload) ==
  LET existing == existing_users(payload) IN
  /\ Len(user) < MaxUsers
  /\ user' = create_user_store(payload, existing)
  /\ response' = create_user_response(payload, existing)
  /\ body' = None
  /\ UNCHANGED <<db, appointment, availability, inflight>>

(* ------------------------------------------ POST /appointments (111-123) *)
OverlapQuery_ClosedEnds(payload, a) ==
  /\ a.doctor_id = payload.doctor_id
  /\ a.start_datetime <= payload.end_datetime
  /\ a.end_datetime >= payload.start_datetime
  /\ a.status \in {"pending", "confirmed"}

OverlapQuery_AnyStatus(payload, a) ==
  /\ a.doctor_id = payload.doctor_id
  /\ a.start_datetime < payload.end_datetime
  /\ a.end_datetime > payload.start_datetime

OverlapQuery_PendingOnly(payload, a) ==
  /\ a.doctor_id = payload.doctor_id
  /\ a.start_datetime < payload.end_datetime
  /\ a.end_datetime > payload.start_datetime
  /\ a.status = "pending"

OverlapQuery_AnyDoctor(payload, a) ==
  /\ a.start_datetime < payload.end_datetime
  /\ a.end_datetime > payload.start_datetime
  /\ a.status \in {"pending", "confirmed"}

OverlapQuery_SameClinic(payload, a) ==
  /\ a.doctor_id = payload.doctor_id
  /\ a.clinic_id = payload.clinic_id
  /\ a.start_datetime < payload.end_datetime
  /\ a.end_datetime > payload.start_datetime
  /\ a.status \in {"pending", "confirmed"}

OverlapQuery_StartInside(payload, a) ==
  /\ a.doctor_id = payload.doctor_id
  /\ a.start_datetime >= payload.start_datetime
  /\ a.start_datetime < payload.end_datetime
  /\ a.status \in {"pending", "confirmed"}

\* lines 115-119: the query document, matched against one stored appointment
OverlapQuery(payload, a) ==
  /\ a.doctor_id = payload.doctor_id
  /\ a.start_datetime < payload.end_datetime
  /\ a.end_datetime > payload.start_datetime
  /\ a.status \in {"pending", "confirmed"}

overlapping_WithinAvailability(payload) ==
  IF db # None
    THEN IF \E k \in 1..Len(availability) :
              availability[k].doctor_id = payload.doctor_id
           THEN SelectSeq(appointment, LAMBDA a : OverlapQuery(payload, a))
           ELSE <<payload>>
    ELSE <<>>

\* lines 114-121: overlaps = db["appointment"].find({...}) if db else [], as a list
overlapping(payload) ==
  IF db # None THEN SelectSeq(appointment, LAMBDA a : OverlapQuery(payload, a)) ELSE <<>>

SlotTaken_MoreThanOne(overlaps) == Len(overlaps) > 1

\* lines 121-122: if overlaps and len(list(overlaps)) > 0: raise HTTPException(400)
SlotTaken(overlaps) == overlaps # <<>> /\ Len(overlaps) > 0

\* lines 111-123, the response of create_appointment given what the query read
create_appointment_response(payload, overlaps) ==
  IF SlotTaken(overlaps)
    THEN Reply("create_appointment", payload, 400,
               "Time slot overlaps with existing appointment", 0)
  ELSE IF db = None
    THEN Reply("create_appointment", payload, 500, "Database not available", 0)
  ELSE Reply("create_appointment", payload, 200, "", Len(appointment) + 1)

\* lines 111-123, the appointment collection after create_appointment
create_appointment_store(payload, overlaps) ==
  IF ~SlotTaken(overlaps) /\ db # None
    THEN create_document(appointment, payload)
    ELSE appointment

CreateAppointment(payload) ==
  LET overlaps == overlapping(payload) IN
  /\ Len(appointment) < MaxAppointments
  /\ appointment' = create_appointment_store(payload, overlaps)
  /\ response' = create_appointment_response(payload, overlaps)
  /\ UNCHANGED <<db, user, availability, inflight>>

\* line 112: the body is parsed into payload: Appointment, then handled
PostAppointment(b) ==
  /\ body' = b
  /\ CreateAppointment(Appointment_validate(b))

(* ---------------------------------------- POST /availabilities (98-100) *)
\* lines 98-100
CreateAvailability(payload) ==
  /\ Len(availability) < MaxAvailabilities
  /\ IF db = None
       THEN /\ response' = Reply("create_availability", payload, 500,
                                 "Database not available", 0)
            /\ UNCHANGED availability
       ELSE /\ availability' = create_document(availability, payload)
            /\ response' = Reply("create_availability", payload, 200, "",
                                 Len(availability) + 1)
  /\ body' = None
  /\ UNCHANGED <<db, user, appointment, inflight>>

(* ------------------------------------------- GET /appointments (125-132) *)
\* lines 127-132: a filter field is set when its parameter is given
list_appointments(clinic_id, doctor_id, patient_id, status) ==
  LET given == [clinic_id |-> clinic_id, doctor_id |-> doctor_id,
                patient_id |-> patient_id, status |-> status]
      q == [f \in {g \in DOMAIN given : given[g] # None} |-> given[f]]
  IN get_documents(appointment, q)

(* ----------------------- PATCH /appointments/{id}/status (137-143) *)
StatusFilterId_Parsed(appointment_id) == {appointment_id}

\* line 141: "objectid(appointment_id) if False else None" is None, and no stored
\* document has a null _id: the stored identifiers the filter matches
StatusFilterId(appointment_id) == {}

UpdateAppointmentStatus_Deleting(appointment_id, payload) ==
  /\ IF db = None
       THEN /\ response' = Reply("update_appointment_status",
                                 [id |-> appointment_id, status |-> payload.status],
                                 500, "Database not configured", 0)
            /\ UNCHANGED appointment
       ELSE /\ appointment' =
                 IF payload.status = "cancelled"
                   THEN SelectSeq(appointment, LAMBDA a : a.id # appointment_id)
                   ELSE update_one(appointment, StatusFilterId(appointment_id),
                                   payload.status)
            /\ response' = Reply("update_appointment_status",
                                 [id |-> appointment_id, status |-> payload.status],
                                 200, "Status update requested", 0)
  /\ body' = None
  /\ UNCHANGED <<db, user, availability, inflight>>

UpdateAppointmentStatus_Unguarded(appointment_id, payload) ==
  /\ appointment' = update_one(appointment, StatusFilterId(appointment_id),
                               payload.status)
  /\ response' = Reply("update_appointment_status",
                       [id |-> appointment_id, status |-> payload.status],
                       200, "Status update requested", 0)
  /\ body' = None
  /\ UNCHANGED <<db, user, availability, inflight>>

\* lines 139-143
UpdateAppointmentStatus(appointment_id, payload) ==
  /\ IF db = None
       THEN /\ response' = Reply("update_appointment_status",
                                 [id |-> appointment_id, status |-> payload.status],
                                 500, "Database not configured", 0)
            /\ UNCHANGED appointment
       ELSE /\ appointment' = update_one(appointment, StatusFilterId(appointment_id),
                                         payload.status)
            /\ response' = Reply("update_appointment_status",
                                 [id |-> appointment_id, status |-> payload.status],
                                 200, "Status update requested", 0)
  /\ body' = None
  /\ UNCHANGED <<db, user, availability, inflight>>

(* ------------------------------------- requests handled one at a time *)
Next ==
  \/ \E b \in BookingBodies : PostAppointment(b)
  \/ \E appointment_id \in AppointmentIds, payload \in AppointmentStatus :
       UpdateAppointmentStatus(appointment_id, payload)

Spec == Init /\ [][Next]_vars

UserNext == \E payload \in User : CreateUser(payload)

UserSpec == Init /\ [][UserNext]_vars

\* bookings of every clinic and patient, and availabilities being published
WideNext ==
  \/ \E payload \in Availability : CreateAvailability(payload)
  \/ \E b \in WideBodies : PostAppointment(b)

WideSpec == Init /\ [][WideNext]_vars

\* the three handlers that check before they write, on plain bookings
AllNext ==
  \/ \E payload \in User : CreateUser(payload)
  \/ \E b \in PlainBodies : PostAppointment(b)
  \/ \E appointment_id \in AppointmentIds, payload \in AppointmentStatus :
       UpdateAppointmentStatus(appointment_id, payload)

AllSpec == Init /\ [][AllNext]_vars

(* ------------------------------------------- requests handled concurrently *)
\* Handlers are plain "def" endpoints, run on worker threads: between the read of
\* a handler and its insert, other handlers' reads and inserts may take place.
Idle == [pc |-> "idle"]

\* create_user up to line 67 (the find), on thread t
CreateUserFind(t, payload) ==
  /\ inflight[t].pc = "idle"
  /\ inflight' = [inflight EXCEPT ![t] =
       [pc |-> "found", op |-> "create_user", payload |-> payload,
        found |-> existing_users(payload)]]
  /\ UNCHANGED <<db, user, appointment, availability, response, body>>

\* create_user lines 68-71, on thread t
CreateUserInsert(t) ==
  /\ inflight[t].pc = "found"
  /\ inflight[t].op = "create_user"
  /\ user' = create_user_store(inflight[t].payload, inflight[t].found)
  /\ inflight' = [inflight EXCEPT ![t] =
       [pc |-> "done",
        response |-> create_user_response(inflight[t].payload, inflight[t].found)]]
  /\ UNCHANGED <<db, appointment, availability, response, body>>

\* create_appointment up to line 121 (the cursor is read by list()), on thread t
CreateAppointmentFind(t, payload) ==
  /\ inflight[t].pc = "idle"
  /\ inflight' = [inflight EXCEPT ![t] =
       [pc |-> "found", op |-> "create_appointment", payload |-> payload,
        found |-> overlapping(payload)]]
  /\ UNCHANGED <<db, user, appointment, availability, response, body>>

\* create_appointment lines 121-123, on thread t
CreateAppointmentInsert(t) ==
  /\ inflight[t].pc = "found"
  /\ inflight[t].op = "create_appointment"
  /\ appointment' = create_appointment_store(inflight[t].payload, inflight[t].found)
  /\ inflight' = [inflight EXCEPT ![t] =
       [pc |-> "done",
        response |-> create_appointment_response(inflight[t].payload, inflight[t].found)]]
  /\ UNCHANGED <<db, user, availability, response, body>>

ConcNext ==
  \E t \in Threads :
    \/ \E payload \in User : CreateUserFind(t, payload)
    \/ CreateUserInsert(t)
    \/ \E payload \in Bookings : CreateAppointmentFind(t, payload)
    \/ CreateAppointmentInsert(t)

ConcSpec == Init /\ [][ConcNext]_vars

(* ================================================================ claims *)
\* Half-open interval overlap of two appointments (glossary of the design)
HalfOpenOverlap(a, b) ==
  a.start_datetime < b.end_datetime /\ b.start_datetime < a.end_datetime

Active(a) == a.status \in {"pending", "confirmed"}
Terminal(a) == a.status \in {"completed", "cancelled"}
ProperInterval(a) == a.start_datetime < a.end_datetime

Succeeded(r) == r.status_code = 200 /\ r.id # 0
SlotConflict(r) ==
  r.status_code = 400 /\ r.detail = "Time slot overlaps with existing appointment"
DuplicateEmail(r) == r.status_code = 400 /\ r.detail = "Email already exists"

\* The stored appointments of the doctor of booking b
OfDoctor(coll, b) == {i \in 1..Len(coll) : coll[i].doctor_id = b.doctor_id}

\* A step that handles one create_appointment request; the request is response'.payload
BookingStep == response'.op = "create_appointment"

\* A step that stores the booking of response' as a new record and returns its id
Booked ==
  /\ Succeeded(response')
  /\ Len(appointment') = Len(appointment) + 1
  /\ SubSeq(appointment', 1, Len(appointment)) = appointment
  /\ appointment'[Len(appointment')].id = response'.id
  /\ \A f \in DOMAIN response'.payload :
       appointment'[Len(appointment')][f] = response'.payload[f]

\* C1: two concurrent create_appointment requests for the same doctor with
\* overlapping intervals, run against a store with no overlapping active
\* appointment, never both succeed: exactly one succeeds and the other fails
\* with SlotConflict.
C1_AtomicBooking ==
  \A t1, t2 \in Threads :
    ( /\ t1 # t2
      /\ db # None
      /\ inflight[t1].pc = "done" /\ inflight[t2].pc = "done"
      /\ inflight[t1].response.op = "create_appointment"
      /\ inflight[t2].response.op = "create_appointment"
      /\ inflight[t1].response.payload.doctor_id = inflight[t2].response.payload.doctor_id
      /\ ProperInterval(inflight[t1].response.payload)
      /\ ProperInterval(inflight[t2].response.payload)
      /\ Active(inflight[t1].response.payload)
      /\ Active(inflight[t2].response.payload)
      /\ HalfOpenOverlap(inflight[t1].response.payload, inflight[t2].response.payload)
      /\ \A t \in Threads \ {t1, t2} : inflight[t].pc = "idle" )
    => \/ Succeeded(inflight[t1].response) /\ SlotConflict(inflight[t2].response)
       \/ Succeeded(inflight[t2].response) /\ SlotConflict(inflight[t1].response)

\* C2 (as claimed): with A stored, booking B for A's doctor succeeds iff for every
\* stored A of that doctor the intervals do not overlap or one of A, B is
\* completed or cancelled.
C2_SucceedsIffNoOverlapOrEitherTerminal ==
  [][ (BookingStep /\ appointment # <<>>)
      => ( Booked <=>
             \A i \in OfDoctor(appointment, response'.payload) :
               \/ ~HalfOpenOverlap(appointment[i], response'.payload)
               \/ Terminal(appointment[i])
               \/ Terminal(response'.payload) ) ]_vars

\* C2 (amended): with A stored, booking B for A's doctor succeeds iff for every
\* stored A of that doctor the intervals do not overlap or A is completed or
\* cancelled; the status B is submitted with plays no part.
C2_SucceedsIffNoOverlapOrStoredTerminal ==
  [][ (BookingStep /\ appointment # <<>>)
      => ( Booked <=>
             \A i \in OfDoctor(appointment, response'.payload) :
               \/ ~HalfOpenOverlap(appointment[i], response'.payload)
               \/ Terminal(appointment[i]) ) ]_vars

\* C2 witness: a booking submitted as cancelled was rejected because it overlaps a
\* stored active appointment of its doctor.
C2_Witness ==
  /\ response.op = "create_appointment"
  /\ SlotConflict(response)
  /\ Terminal(response.payload)
  /\ ProperInterval(response.payload)
  /\ \E i \in OfDoctor(appointment, response.payload) :
       /\ Active(appointment[i]) /\ ProperInterval(appointment[i])
       /\ HalfOpenOverlap(appointment[i], response.payload)

\* C3: a booking that starts exactly where an active appointment of its doctor
\* ends, or ends exactly where one starts, succeeds when no other active
\* appointment of the doctor overlaps it.
C3_TouchingEndpointsSucceed ==
  [][ ( /\ BookingStep
        /\ \E i \in OfDoctor(appointment, response'.payload) :
             /\ Active(appointment[i])
             /\ \/ appointment[i].end_datetime = response'.payload.start_datetime
                \/ appointment[i].start_datetime = response'.payload.end_datetime
             /\ \A j \in OfDoctor(appointment, response'.payload) \ {i} :
                  Active(appointment[j])
                    => ~HalfOpenOverlap(appointment[j], response'.payload) )
      => Booked ]_vars

\* C3 witness: a booking was stored right after an active appointment of the same
\* doctor that ends at the booking's start.
C3_Witness ==
  /\ response.op = "create_appointment"
  /\ Succeeded(response)
  /\ Len(appointment) >= 2
  /\ ProperInterval(response.payload)
  /\ \E i \in 1..(Len(appointment) - 1) :
       /\ appointment[i].doctor_id = response.payload.doctor_id
       /\ Active(appointment[i]) /\ ProperInterval(appointment[i])
       /\ appointment[i].end_datetime = response.payload.start_datetime

\* C4: a booking succeeds whenever every stored appointment of its doctor that
\* overlaps it is completed or cancelled (the store being available).
C4_TerminalNeverBlocks ==
  [][ ( /\ BookingStep
        /\ db # None
        /\ \A i \in OfDoctor(appointment, response'.payload) :
             HalfOpenOverlap(appointment[i], response'.payload)
               => Terminal(appointment[i]) )
      => Booked ]_vars

\* C4 witness: a booking was stored although a completed or cancelled appointment
\* of the same doctor overlaps it.
C4_Witness ==
  /\ response.op = "create_appointment"
  /\ Succeeded(response)
  /\ Len(appointment) >= 2
  /\ ProperInterval(response.payload)
  /\ \E i \in 1..(Len(appointment) - 1) :
       /\ appointment[i].doctor_id = response.payload.doctor_id
       /\ Terminal(appointment[i]) /\ ProperInterval(appointment[i])
       /\ HalfOpenOverlap(appointment[i], response.payload)

\* C5: a booking that overlaps a stored active appointment of its doctor is
\* rejected with SlotConflict and the appointment collection is left as it was.
C5_OverlapRejectedNothingStored ==
  [][ ( /\ BookingStep
        /\ \E i \in OfDoctor(appointment, response'.payload) :
             /\ Active(appointment[i])
             /\ HalfOpenOverlap(appointment[i], response'.payload) )
      => (SlotConflict(response') /\ appointment' = appointment) ]_vars

\* C5 witness: a booking with the very interval of a stored active appointment of
\* its doctor was rejected with SlotConflict.
C5_Witness ==
  /\ response.op = "create_appointment"
  /\ SlotConflict(response)
  /\ Active(response.payload)
  /\ \E i \in OfDoctor(appointment, response.payload) :
       /\ Active(appointment[i]) /\ ProperInterval(appointment[i])
       /\ appointment[i].start_datetime = response.payload.start_datetime
       /\ appointment[i].end_datetime = response.payload.end_datetime

\* The lifecycle table of the design: the statuses that may follow status s
LegalSuccessors(s) ==
  CASE s = "pending" -> {"confirmed", "cancelled"}
    [] s = "confirmed" -> {"completed", "cancelled"}
    [] OTHER -> {}

InvalidTransition(r) == r.status_code \in {400, 409}
NotFound(r) == r.status_code = 404

\* A step that handles one set_status request: response'.payload is its id and status
StatusStep == response'.op = "update_appointment_status"

\* The positions of the stored appointments with identifier id
WithId(coll, id) == {i \in 1..Len(coll) : coll[i].id = id}

\* C6: set_status on a stored appointment with a status that is no legal
\* successor of its current status fails with InvalidTransition and leaves the
\* stored status as it was.
C6_IllegalTransitionRejected ==
  [][ StatusStep
      => \A i \in WithId(appointment, response'.payload.id) :
           response'.payload.status \notin LegalSuccessors(appointment[i].status)
             => /\ InvalidTransition(response')
                /\ appointment'[i].status = appointment[i].status ]_vars

\* C7: set_status on an identifier no stored appointment has fails with NotFound
\* and changes no stored appointment.
C7_UnknownIdNotFound ==
  [][ ( /\ StatusStep
        /\ db # None
        /\ WithId(appointment, response'.payload.id) = {} )
      => (NotFound(response') /\ appointment' = appointment) ]_vars

\* C8: when set_status on a stored appointment reports success, the stored
\* appointment has the new status and listing by that status shows it.
C8_SuccessMeansStatusStored ==
  ( /\ response.op = "update_appointment_status"
    /\ response.status_code = 200
    /\ WithId(appointment, response.payload.id) # {} )
  => /\ \A i \in WithId(appointment, response.payload.id) :
          appointment[i].status = response.payload.status
     /\ LET shown == list_appointments(None, None, None, response.payload.status)
        IN \E k \in 1..Len(shown) : shown[k].id = response.payload.id

\* C9: a stored appointment that is completed or cancelled keeps that status in
\* every later state.
C9_TerminalAbsorbing ==
  [][ \A i \in 1..Len(appointment) :
        Terminal(appointment[i])
          => /\ i <= Len(appointment')
             /\ appointment'[i].id = appointment[i].id
             /\ appointment'[i].status = appointment[i].status ]_vars

\* C9 witness: a set_status asking for another status was handled for a stored
\* appointment that is completed or cancelled.
C9_Witness ==
  /\ response.op = "update_appointment_status"
  /\ response.status_code = 200
  /\ \E i \in WithId(appointment, response.payload.id) :
       /\ Terminal(appointment[i])
       /\ response.payload.status # appointment[i].status

\* C10: create_user with an email some stored user has is rejected with
\* DuplicateEmail (400) and stores nothing; with an email no stored user has it
\* stores the user and returns the new id (the store being available).
C10_DuplicateEmailRejected ==
  [][ response'.op = "create_user"
      => IF \E i \in 1..Len(user) : user[i].email = response'.payload.email
           THEN DuplicateEmail(response') /\ user' = user
           ELSE db # None
                  => /\ Succeeded(response')
                     /\ Len(user') = Len(user) + 1
                     /\ SubSeq(user', 1, Len(user)) = user
                     /\ user'[Len(user')].email = response'.payload.email
                     /\ user'[Len(user')].id = response'.id ]_vars

\* C10 witness: a create_user was rejected with DuplicateEmail after users,
\* among them one with the same email, had been stored.
C10_Witness ==
  /\ response.op = "create_user"
  /\ DuplicateEmail(response)
  /\ Len(user) >= 2
  /\ \E i \in 1..Len(user) : user[i].email = response.payload.email

ValidationError(r) == r.status_code = 422

\* C11: every stored appointment has start < end, and a create_appointment
\* whose start is not before its end is rejected with a validation error and
\* stores nothing.
C11_StartBeforeEnd ==
  /\ \A i \in 1..Len(appointment) : ProperInterval(appointment[i])
  /\ (response.op = "create_appointment" /\ ~ProperInterval(response.payload))
       => ValidationError(response)

\* C13: with requests handled one at a time, no two distinct stored appointments
\* of one doctor that are both pending or confirmed have overlapping intervals.
C13_NoActiveOverlap ==
  \A i, j \in 1..Len(appointment) :
    ( /\ i # j
      /\ appointment[i].doctor_id = appointment[j].doctor_id
      /\ Active(appointment[i]) /\ Active(appointment[j]) )
    => ~HalfOpenOverlap(appointment[i], appointment[j])

\* C13 witness: two pending or confirmed appointments of one doctor are stored,
\* one ending where the other starts, after a set_status request was handled.
C13_Witness ==
  /\ response.op = "update_appointment_status"
  /\ \E i, j \in 1..Len(appointment) :
       /\ i # j
       /\ appointment[i].doctor_id = appointment[j].doctor_id
       /\ Active(appointment[i]) /\ Active(appointment[j])
       /\ ProperInterval(appointment[i]) /\ ProperInterval(appointment[j])
       /\ appointment[i].end_datetime = appointment[j].start_datetime

\* C14: no two stored users have the same email, also when create_user requests
\* interleave their existence check and their insert; of concurrent requests
\* with the same fresh email at most one succeeds.
C14_UniqueEmailsConcurrently ==
  /\ \A i, j \in 1..Len(user) : i # j => user[i].email # user[j].email
  /\ \A t1, t2 \in Threads :
       ( /\ t1 # t2
         /\ inflight[t1].pc = "done" /\ inflight[t2].pc = "done"
         /\ inflight[t1].response.op = "create_user"
         /\ inflight[t2].response.op = "create_user"
         /\ inflight[t1].response.payload.email = inflight[t2].response.payload.email )
       => ~(Succeeded(inflight[t1].response) /\ Succeeded(inflight[t2].response))

\* C15: a stored appointment stays stored, with its identifier, doctor, patient,
\* clinic, start and end unchanged; its status changes only in a step that
\* handles a set_status request.
C15_NeverRemoved ==
  [][ \A i \in 1..Len(appointment) :
        /\ i <= Len(appointment')
        /\ \A f \in {"id", "doctor_id", "patient_id", "clinic_id",
                     "start_datetime", "end_datetime"} :
             appointment'[i][f] = appointment[i][f]
        /\ appointment'[i].status # appointment[i].status => StatusStep ]_vars

\* C15 witness: a set_status to cancelled was handled for a stored appointment,
\* and the appointment is still stored.
C15_Witness ==
  /\ response.op = "update_appointment_status"
  /\ response.status_code = 200
  /\ response.payload.status = "cancelled"
  /\ WithId(appointment, response.payload.id) # {}

\* The stored pending or confirmed appointments of booking b's doctor that
\* overlap b: a function of the appointment collection and the booking alone
Blocking(coll, b) ==
  {i \in OfDoctor(coll, b) : Active(coll[i]) /\ HalfOpenOverlap(coll[i], b)}

\* C12: whatever Availability records are stored (none at all, or none of the
\* booking's doctor), a booking is accepted iff no stored active appointment of
\* its doctor overlaps it: the outcome is decided by the appointment collection
\* and the request alone, and handling it leaves the availabilities as they were.
C12_AvailabilityIgnored ==
  [][ (BookingStep /\ db # None)
      => /\ Booked <=> Blocking(appointment, response'.payload) = {}
         /\ SlotConflict(response') <=> Blocking(appointment, response'.payload) # {}
         /\ availability' = availability ]_vars

\* C12 witness: a booking was stored for a doctor who has published no
\* availability, while another doctor has.
C12_Witness ==
  /\ response.op = "create_appointment"
  /\ Succeeded(response)
  /\ Len(availability) >= 1
  /\ \A k \in 1..Len(availability) :
       availability[k].doctor_id # response.payload.doctor_id

\* C16 (as claimed): a successful create_appointment stores the new appointment
\* with status pending and returns its identifier.
C16_StoredPending ==
  (response.op = "create_appointment" /\ Succeeded(response))
  => /\ WithId(appointment, response.id) # {}
     /\ \A i \in WithId(appointment, response.id) : appointment[i].status = "pending"

\* C16 (amended): a successful create_appointment stores the new appointment
\* with the status its body gives, pending when the body gives none, and returns
\* its identifier.
C16_StoredWithGivenOrDefaultStatus ==
  (response.op = "create_appointment" /\ Succeeded(response))
  => /\ WithId(appointment, response.id) # {}
     /\ \A i \in WithId(appointment, response.id) :
          appointment[i].status =
            IF body.status = None THEN "pending" ELSE body.status

\* C16 witness: a booking whose body gave no status was stored as pending.
C16_Witness ==
  /\ response.op = "create_appointment"
  /\ Succeeded(response)
  /\ body.status = None
  /\ \E i \in WithId(appointment, response.id) : appointment[i].status = "pending"

\* C17: a booking is never rejected because of appointments of other doctors,
\* and is rejected when a pending or confirmed appointment of its own doctor
\* overlaps it, whatever clinic and patient that appointment has.
C17_KeyedByDoctorOnly ==
  [][ BookingStep
      => /\ ( /\ db # None
              /\ \A i \in 1..Len(appointment) :
                   (Active(appointment[i])
                      /\ HalfOpenOverlap(appointment[i], response'.payload))
                     => appointment[i].doctor_id # response'.payload.doctor_id )
            => Booked
         /\ ( \E i \in Blocking(appointment, response'.payload) :
                \/ appointment[i].clinic_id # response'.payload.clinic_id
                \/ appointment[i].patient_id # response'.payload.patient_id )
            => (SlotConflict(response') /\ appointment' = appointment) ]_vars

\* C17 witness: a booking was stored although a pending appointment of another
\* doctor, with the same clinic and patient, overlaps it.
C17_Witness ==
  /\ response.op = "create_appointment"
  /\ Succeeded(response)
  /\ \E i \in 1..Len(appointment) :
       /\ appointment[i].doctor_id # response.payload.doctor_id
       /\ appointment[i].clinic_id = response.payload.clinic_id
       /\ appointment[i].patient_id = response.payload.patient_id
       /\ Active(appointment[i])
       /\ HalfOpenOverlap(appointment[i], response.payload)

\* C17 second case reached: a booking was rejected for a pending appointment of
\* its doctor that has another clinic and another patient.
C17_RejectedAcrossClinics ==
  /\ response.op = "create_appointment"
  /\ SlotConflict(response)
  /\ \E i \in Blocking(appointment, response.payload) :
       /\ appointment[i].clinic_id # response.payload.clinic_id
       /\ appointment[i].patient_id # response.payload.patient_id

StorageUnavailable(r) == r.status_code \in 500..599

====
